---- MODULE Spec2Model ----
(***************************************************************************)
(* Availability slots and booking lifecycle of the Booking backend.        *)
(*                                                                         *)
(* The store is the MongoDB collections "bookings" and                     *)
(* "availability_slots".  Every request handler is a sequence of store     *)
(* operations (find_one, count_documents, insert_one, update_one,          *)
(* delete_many); each store operation is one atomic step of the request    *)
(* that issues it.  Spec interleaves the steps of concurrent requests;     *)
(* SeqSpec runs the same steps with one request at a time.                 *)
(*                                                                         *)
(* A datetime is [day, tod]: the calendar day and the time of day (0 is    *)
(* midnight).  All days of the model are in the future, one profile with   *)
(* one owner is modelled, and the caller is always authorised.             *)
(***************************************************************************)
EXTENDS Integers, Sequences, FiniteSets, TLC

\* Bounds of the model.
MaxBookings == 2
MaxCapacity == 2
\* slot documents with the same date and time slot
MaxSlotsPerDay == 2
\* requests served while requests overlap (Spec)
MaxRequests == 3

Procs == {1, 2}
Users == {1, 2}
\* users whose document has auto_accept = true
AutoAcceptUsers == {1}
Days == {1, 2}
TimesOfDay == {0, 1}
TimeSlots == {"09:00-10:00"}
NoTS == "none"
\* A slot id is <<day, k>>: uuid4 ids are only ever compared for equality, so
\* the k-th live document of a day stands for whatever id it has.
SlotIds == Days \X (1..MaxSlotsPerDay)
NoSid == <<0, 0>>

Statuses == {"PENDING", "CONFIRMED", "REJECTED", "CANCELLED", "COMPLETED", "NO_SHOW"}
\* bookings.models.BookingStatus: the values BookingStatusUpdate accepts
OwnerStatuses == {"PENDING", "CONFIRMED", "REJECTED", "CANCELLED", "COMPLETED"}
ActiveStatuses == {"PENDING", "CONFIRMED"}

VARIABLES
    bookings,   \* collection "bookings": sequence of documents, the id is the index
    slots,      \* collection "availability_slots": slot id -> document
    pr,         \* per request-handling unit: its current request and local variables
    nreq,       \* Spec: the number of requests taken up so far
    pre,        \* SeqSpec: the store as the running request found it
    templates,  \* collection "slot_templates": template id -> document
    preview,    \* a preview request: its configuration and the list returned
    overlapped  \* the units whose request in flight has run beside another one

vars == <<bookings, slots, pr, nreq, pre, templates, preview, overlapped>>

NoPreview == [done |-> FALSE]

NoPre == [bookings |-> <<>>, slots |-> <<>>]

NoDate == [day |-> 0, tod |-> 0]

\* datetime.replace(hour=0, minute=0, second=0, microsecond=0)
Normalize(d) == [day |-> d.day, tod |-> 0]

\* the datetimes a request may carry: any, or those at midnight
Dates == [day : Days, tod : TimesOfDay]
MidnightDates == {d \in Dates : d.tod = 0}
\* the dates a request carries: midnight of every day, and one time of day
\* that is not midnight
RequestDates == MidnightDates \cup {[day |-> 1, tod |-> 1]}

Idle ==
    [op |-> "none", pc |-> "idle", user |-> 0, bid |-> 0, date |-> NoDate,
     ts |-> NoTS, sid |-> NoSid, cap |-> 0, cnt |-> 0, avail |-> FALSE,
     st |-> "none", dates |-> <<>>, prot |-> {}, ref |-> 0,
     tid |-> 0, is_default |-> "none",
     config |-> <<>>, current_hour |-> 0, current_min |-> 0, created_slots |-> <<>>,
     success_count |-> 0, failed_dates |-> <<>>]

BookingIds == 1..Len(bookings)

\* exact-match lookup of availability_slots on (profile, date, time_slot)
FindSlots(date, ts) ==
    {i \in DOMAIN slots : slots[i].date = date /\ slots[i].ts = ts}

count_confirmed_bookings_for_slot(date, ts) ==
    Cardinality({b \in BookingIds :
        /\ bookings[b].date = Normalize(date)
        /\ bookings[b].ts = ts
        /\ bookings[b].status = "CONFIRMED"})

user_has_active_booking_for_slot(user, date, ts) ==
    \E b \in BookingIds :
        /\ bookings[b].user = user
        /\ bookings[b].date = Normalize(date)
        /\ bookings[b].ts = ts
        /\ bookings[b].status \in ActiveStatuses

\* the ids a new slot document of a day may get
FreshSlotIds(day) == {i \in SlotIds : i[1] = day /\ i \notin DOMAIN slots}

\* The ids in D are deleted: a request that still holds one of them holds an id
\* that matches no document from now on (a deleted uuid4 never comes back).
Unref(prs, D) ==
    [q \in Procs |-> IF prs[q].sid \in D THEN [prs[q] EXCEPT !.sid = NoSid] ELSE prs[q]]

\* a create request that has not inserted its booking yet
PendingInsert(q) == pr[q].op = "create" /\ pr[q].pc \in {"c_dup", "c_cap", "c_ins"}

RoomForBooking ==
    Len(bookings) + Cardinality({q \in Procs : PendingInsert(q)}) < MaxBookings

SetBookingStatus(b, st) == [bookings EXCEPT ![b].status = st]

SetPr(p, r) == pr' = [pr EXCEPT ![p] = r]

Finish(p) == SetPr(p, Idle)

(***************************************************************************)
(* AvailabilityRepository.increment_booked_count / decrement_booked_count  *)
(* as two store operations: the find_one that computes the new values and  *)
(* the update_one that writes them.                                        *)
(***************************************************************************)
\* increment_booked_count writing the count it read back
IncrementReadSame(p, next, done) ==
    LET sid == pr[p].sid IN
    /\ IF sid \in DOMAIN slots
       THEN SetPr(p, [pr[p] EXCEPT !.pc = next,
                        !.cnt = slots[sid].booked_count,
                        !.avail = slots[sid].booked_count < slots[sid].max_capacity])
       ELSE done
    /\ UNCHANGED <<bookings, slots>>

IncrementRead(p, next, done) ==
    LET sid == pr[p].sid IN
    /\ IF sid \in DOMAIN slots
       THEN SetPr(p, [pr[p] EXCEPT !.pc = next,
                        !.cnt = slots[sid].booked_count + 1,
                        !.avail = slots[sid].booked_count + 1 < slots[sid].max_capacity])
       ELSE done
    /\ UNCHANGED <<bookings, slots>>

\* decrement_booked_count without its booked_count <= 0 return
DecrementReadUnguarded(p, next, skip) ==
    LET sid == pr[p].sid IN
    /\ IF sid \in DOMAIN slots
       THEN SetPr(p, [pr[p] EXCEPT !.pc = next,
                        !.cnt = slots[sid].booked_count - 1,
                        !.avail = slots[sid].booked_count - 1 < slots[sid].max_capacity])
       ELSE skip
    /\ UNCHANGED <<bookings, slots>>

DecrementRead(p, next, skip) ==
    LET sid == pr[p].sid IN
    /\ IF sid \in DOMAIN slots /\ slots[sid].booked_count > 0
       THEN SetPr(p, [pr[p] EXCEPT !.pc = next,
                        !.cnt = slots[sid].booked_count - 1,
                        !.avail = slots[sid].booked_count - 1 < slots[sid].max_capacity])
       ELSE skip
    /\ UNCHANGED <<bookings, slots>>

\* update_one {"id": slot_id} $set booked_count, is_available
CountWrite(p) ==
    LET sid == pr[p].sid IN
    slots' = IF sid \in DOMAIN slots
             THEN [slots EXCEPT ![sid].booked_count = pr[p].cnt,
                                ![sid].is_available = pr[p].avail]
             ELSE slots

(***************************************************************************)
(* POST /bookings: create_booking                                          *)
(***************************************************************************)
CreateFindSlot(p, reqDates) ==
    /\ pr[p].pc = "idle"
    /\ RoomForBooking
    /\ \E u \in Users, d \in reqDates, ts \in TimeSlots :
         IF FindSlots(Normalize(d), ts) = {}
         THEN pr' = pr     \* 404 time slot not found
         ELSE \E s \in FindSlots(Normalize(d), ts) :
                SetPr(p, [Idle EXCEPT !.op = "create", !.pc = "c_dup", !.user = u,
                            !.date = d, !.ts = ts, !.sid = s,
                            !.cap = slots[s].max_capacity])
    /\ UNCHANGED <<bookings, slots>>

CreateCheckDuplicate(p) ==
    /\ pr[p].op = "create" /\ pr[p].pc = "c_dup"
    /\ IF user_has_active_booking_for_slot(pr[p].user, Normalize(pr[p].date), pr[p].ts)
       THEN Finish(p)      \* 409 already have a booking
       ELSE SetPr(p, [pr[p] EXCEPT !.pc = "c_cap"])
    /\ UNCHANGED <<bookings, slots>>

\* the booking stored before the capacity answer rejects the request
CreateCheckCapacityLate(p) ==
    /\ pr[p].op = "create" /\ pr[p].pc = "c_cap"
    /\ IF count_confirmed_bookings_for_slot(Normalize(pr[p].date), pr[p].ts) >= pr[p].cap
       THEN /\ bookings' = Append(bookings,
                   [user |-> pr[p].user, date |-> pr[p].date, ts |-> pr[p].ts,
                    status |-> "PENDING"])
            /\ Finish(p)
       ELSE /\ SetPr(p, [pr[p] EXCEPT !.pc = "c_ins"])
            /\ UNCHANGED bookings
    /\ UNCHANGED slots

CreateCheckCapacity(p) ==
    /\ pr[p].op = "create" /\ pr[p].pc = "c_cap"
    /\ IF count_confirmed_bookings_for_slot(Normalize(pr[p].date), pr[p].ts) >= pr[p].cap
       THEN Finish(p)      \* 400 fully booked
       ELSE SetPr(p, [pr[p] EXCEPT !.pc = "c_ins"])
    /\ UNCHANGED <<bookings, slots>>

\* BookingRepository.create_booking stores booking_date as given
CreateInsert(p) ==
    /\ pr[p].op = "create" /\ pr[p].pc = "c_ins"
    /\ bookings' = Append(bookings,
          [user |-> pr[p].user, date |-> pr[p].date, ts |-> pr[p].ts,
           status |-> "PENDING"])
    /\ SetPr(p, [Idle EXCEPT !.op = "create", !.pc = "c_user", !.user = pr[p].user,
                    !.bid = Len(bookings) + 1, !.sid = pr[p].sid])
    /\ UNCHANGED slots

\* find_one of the customer's user document: auto_accept decides whether the
\* handler goes on to confirm; otherwise it notifies the owner and returns
CreateReadUser(p) ==
    /\ pr[p].op = "create" /\ pr[p].pc = "c_user"
    /\ IF pr[p].user \in AutoAcceptUsers
       THEN SetPr(p, [pr[p] EXCEPT !.pc = "c_conf", !.user = 0])
       ELSE Finish(p)
    /\ UNCHANGED <<bookings, slots>>

\* update_booking_status(CONFIRMED), then add_booking_note (booking_notes is
\* not part of the modelled store)
CreateAutoConfirm(p) ==
    /\ pr[p].op = "create" /\ pr[p].pc = "c_conf"
    /\ bookings' = SetBookingStatus(pr[p].bid, "CONFIRMED")
    /\ SetPr(p, [pr[p] EXCEPT !.pc = "c_incr"])
    /\ UNCHANGED slots

CreateIncrementRead(p) ==
    /\ pr[p].op = "create" /\ pr[p].pc = "c_incr"
    /\ IncrementRead(p, "c_incw", Finish(p))

CreateIncrementWrite(p) ==
    /\ pr[p].op = "create" /\ pr[p].pc = "c_incw"
    /\ CountWrite(p)
    /\ Finish(p)
    /\ UNCHANGED bookings

(***************************************************************************)
(* PUT /bookings/{id}/status: update_booking_status (profile owner)        *)
(***************************************************************************)
OwnerStatusCheck(p) ==
    /\ pr[p].pc = "idle"
    /\ \E b \in BookingIds, st \in OwnerStatuses :
         IF st \notin {"CONFIRMED", "REJECTED"} \/ bookings[b].status # "PENDING"
         THEN pr' = pr     \* 400
         ELSE SetPr(p, [Idle EXCEPT !.op = "owner_status", !.pc = "u_set",
                          !.bid = b, !.st = st])
    /\ UNCHANGED <<bookings, slots>>

\* BookingRepository.update_booking_status; for REJECTED the reads that follow
\* change nothing
OwnerStatusSet(p) ==
    /\ pr[p].op = "owner_status" /\ pr[p].pc = "u_set"
    /\ bookings' = SetBookingStatus(pr[p].bid, pr[p].st)
    /\ IF pr[p].st = "CONFIRMED"
       THEN SetPr(p, [pr[p] EXCEPT !.pc = "u_get"])
       ELSE Finish(p)
    /\ UNCHANGED slots

\* get_booking_by_id again: the date and time slot the booking has now
OwnerStatusReread(p) ==
    /\ pr[p].op = "owner_status" /\ pr[p].pc = "u_get"
    /\ SetPr(p, [pr[p] EXCEPT !.pc = "u_slot",
                   !.date = Normalize(bookings[pr[p].bid].date),
                   !.ts = bookings[pr[p].bid].ts])
    /\ UNCHANGED <<bookings, slots>>

OwnerStatusFindSlot(p) ==
    /\ pr[p].op = "owner_status" /\ pr[p].pc = "u_slot"
    /\ IF FindSlots(pr[p].date, pr[p].ts) = {}
       THEN Finish(p)
       ELSE \E s \in FindSlots(pr[p].date, pr[p].ts) :
              SetPr(p, [Idle EXCEPT !.op = "owner_status", !.pc = "u_incr",
                          !.bid = pr[p].bid, !.sid = s])
    /\ UNCHANGED <<bookings, slots>>

OwnerStatusIncrementRead(p) ==
    /\ pr[p].op = "owner_status" /\ pr[p].pc = "u_incr"
    /\ IncrementRead(p, "u_incw", Finish(p))

OwnerStatusIncrementWrite(p) ==
    /\ pr[p].op = "owner_status" /\ pr[p].pc = "u_incw"
    /\ CountWrite(p)
    /\ Finish(p)
    /\ UNCHANGED bookings

(***************************************************************************)
(* PUT /bookings/{id}/cancel: cancel_booking (customer or profile owner)   *)
(***************************************************************************)
CancelCheck(p) ==
    /\ pr[p].pc = "idle"
    /\ \E b \in BookingIds :
         IF bookings[b].status \in {"REJECTED", "CANCELLED"}
         THEN pr' = pr     \* 400
         ELSE IF bookings[b].ts # NoTS /\ bookings[b].status = "CONFIRMED"
         THEN SetPr(p, [Idle EXCEPT !.op = "cancel", !.pc = "k_slot", !.bid = b,
                          !.date = Normalize(bookings[b].date), !.ts = bookings[b].ts])
         ELSE SetPr(p, [Idle EXCEPT !.op = "cancel", !.pc = "k_set", !.bid = b])
    /\ UNCHANGED <<bookings, slots>>

CancelFindSlot(p) ==
    /\ pr[p].op = "cancel" /\ pr[p].pc = "k_slot"
    /\ IF FindSlots(pr[p].date, pr[p].ts) = {}
       THEN SetPr(p, [Idle EXCEPT !.op = "cancel", !.pc = "k_set", !.bid = pr[p].bid])
       ELSE \E s \in FindSlots(pr[p].date, pr[p].ts) :
              SetPr(p, [Idle EXCEPT !.op = "cancel", !.pc = "k_decr",
                          !.bid = pr[p].bid, !.sid = s])
    /\ UNCHANGED <<bookings, slots>>

CancelDecrementRead(p) ==
    /\ pr[p].op = "cancel" /\ pr[p].pc = "k_decr"
    /\ DecrementRead(p, "k_decw",
          SetPr(p, [Idle EXCEPT !.op = "cancel", !.pc = "k_set", !.bid = pr[p].bid]))

CancelDecrementWrite(p) ==
    /\ pr[p].op = "cancel" /\ pr[p].pc = "k_decw"
    /\ CountWrite(p)
    /\ SetPr(p, [Idle EXCEPT !.op = "cancel", !.pc = "k_set", !.bid = pr[p].bid])
    /\ UNCHANGED bookings

\* BookingRepository.cancel_booking
CancelSet(p) ==
    /\ pr[p].op = "cancel" /\ pr[p].pc = "k_set"
    /\ bookings' = SetBookingStatus(pr[p].bid, "CANCELLED")
    /\ Finish(p)
    /\ UNCHANGED slots

(***************************************************************************)
(* PUT /bookings/{id}/reschedule: reschedule_booking (customer)            *)
(***************************************************************************)
\* Python's == between a datetime that carries tzinfo and one that does not:
\* never equal.  date_normalized is built with tzinfo=utc; booking_date is
\* read back from the store without tzinfo (MongoClient is not tz_aware).
AwareEqualsNaive(aware, naive) == FALSE

\* the route taking up a booking in any active status
UserRescheduleCheckActive(p, reqDates) ==
    /\ pr[p].pc = "idle"
    /\ \E b \in BookingIds, d \in reqDates, ts \in TimeSlots :
         IF \/ bookings[b].status \notin ActiveStatuses
            \/ (/\ AwareEqualsNaive(Normalize(d), Normalize(bookings[b].date))
                /\ ts = bookings[b].ts)
         THEN pr' = pr
         ELSE SetPr(p, [Idle EXCEPT !.op = "user_reschedule", !.pc = "r_slot",
                          !.bid = b, !.user = bookings[b].user, !.date = d, !.ts = ts])
    /\ UNCHANGED <<bookings, slots>>

UserRescheduleCheck(p, reqDates) ==
    /\ pr[p].pc = "idle"
    /\ \E b \in BookingIds, d \in reqDates, ts \in TimeSlots :
         IF \/ bookings[b].status # "PENDING"
            \/ (/\ AwareEqualsNaive(Normalize(d), Normalize(bookings[b].date))
                /\ ts = bookings[b].ts)
         THEN pr' = pr     \* 400
         ELSE SetPr(p, [Idle EXCEPT !.op = "user_reschedule", !.pc = "r_slot",
                          !.bid = b, !.user = bookings[b].user, !.date = d, !.ts = ts])
    /\ UNCHANGED <<bookings, slots>>

UserRescheduleFindSlot(p) ==
    /\ pr[p].op = "user_reschedule" /\ pr[p].pc = "r_slot"
    /\ IF FindSlots(Normalize(pr[p].date), pr[p].ts) = {}
       THEN Finish(p)      \* 404
       ELSE \E s \in FindSlots(Normalize(pr[p].date), pr[p].ts) :
              SetPr(p, [pr[p] EXCEPT !.pc = "r_dup", !.cap = slots[s].max_capacity])
    /\ UNCHANGED <<bookings, slots>>

UserRescheduleCheckDuplicate(p) ==
    /\ pr[p].op = "user_reschedule" /\ pr[p].pc = "r_dup"
    /\ IF user_has_active_booking_for_slot(pr[p].user, Normalize(pr[p].date), pr[p].ts)
       THEN Finish(p)      \* 409
       ELSE SetPr(p, [pr[p] EXCEPT !.pc = "r_cap"])
    /\ UNCHANGED <<bookings, slots>>

UserRescheduleCheckCapacity(p) ==
    /\ pr[p].op = "user_reschedule" /\ pr[p].pc = "r_cap"
    /\ IF count_confirmed_bookings_for_slot(Normalize(pr[p].date), pr[p].ts) >= pr[p].cap
       THEN Finish(p)      \* 400
       ELSE SetPr(p, [pr[p] EXCEPT !.pc = "r_set"])
    /\ UNCHANGED <<bookings, slots>>

\* BookingRepository.reschedule_booking
UserRescheduleSet(p) ==
    /\ pr[p].op = "user_reschedule" /\ pr[p].pc = "r_set"
    /\ bookings' = [bookings EXCEPT ![pr[p].bid].date = Normalize(pr[p].date),
                                   ![pr[p].bid].ts = pr[p].ts]
    /\ Finish(p)
    /\ UNCHANGED slots

(***************************************************************************)
(* PUT /admin/bookings/{id}/approve | reject | cancel | complete | no-show *)
(***************************************************************************)
AdminFrom(st) ==
    CASE st = "CONFIRMED" -> {"PENDING"}
      [] st = "REJECTED"  -> {"PENDING"}
      [] st = "CANCELLED" -> {"PENDING", "CONFIRMED"}
      [] st = "COMPLETED" -> {"CONFIRMED"}
      [] st = "NO_SHOW"   -> {"CONFIRMED"}

AdminStatusCheck(p) ==
    /\ pr[p].pc = "idle"
    /\ \E b \in BookingIds, st \in Statuses \ {"PENDING"} :
         IF bookings[b].status \notin AdminFrom(st)
         THEN pr' = pr     \* 400
         ELSE SetPr(p, [Idle EXCEPT !.op = "admin_status", !.pc = "a_set",
                          !.bid = b, !.st = st])
    /\ UNCHANGED <<bookings, slots>>

\* AdminRepository.update_booking_status
AdminStatusSet(p) ==
    /\ pr[p].op = "admin_status" /\ pr[p].pc = "a_set"
    /\ bookings' = SetBookingStatus(pr[p].bid, pr[p].st)
    /\ Finish(p)
    /\ UNCHANGED slots

(***************************************************************************)
(* PUT /admin/bookings/{id}/reschedule: reschedule_booking (owner)         *)
(***************************************************************************)
AdminRescheduleCheck(p, reqDates) ==
    /\ pr[p].pc = "idle"
    /\ \E b \in BookingIds, d \in reqDates, ts \in TimeSlots \cup {NoTS} :
         IF bookings[b].status \notin ActiveStatuses
         THEN pr' = pr     \* 400
         ELSE SetPr(p, [Idle EXCEPT !.op = "admin_reschedule", !.pc = "ar_set",
                          !.bid = b, !.date = d, !.ts = ts])
    /\ UNCHANGED <<bookings, slots>>

\* AdminRepository.reschedule_booking stores new_date as given
AdminRescheduleSet(p) ==
    /\ pr[p].op = "admin_reschedule" /\ pr[p].pc = "ar_set"
    /\ bookings' = [bookings EXCEPT ![pr[p].bid].date = pr[p].date,
                      ![pr[p].bid].ts = IF pr[p].ts # NoTS THEN pr[p].ts ELSE @]
    /\ Finish(p)
    /\ UNCHANGED slots

(***************************************************************************)
(* PUT /availability/slots/{id}: update_slot_capacity                      *)
(* SlotCapacityUpdate.max_capacity is validated gt=0 before the handler.   *)
(***************************************************************************)
CapacityGetSlot(p) ==
    /\ pr[p].pc = "idle"
    /\ \E s \in SlotIds, c \in 0..MaxCapacity :
         IF c < 1 \/ s \notin DOMAIN slots
         THEN pr' = pr     \* 422 / 404
         ELSE SetPr(p, [Idle EXCEPT !.op = "capacity", !.pc = "p_read",
                          !.sid = s, !.cap = c])
    /\ UNCHANGED <<bookings, slots>>

\* AvailabilityRepository.update_slot_capacity: find_one
CapacityRead(p) ==
    /\ pr[p].op = "capacity" /\ pr[p].pc = "p_read"
    /\ IF pr[p].sid \in DOMAIN slots
       THEN SetPr(p, [pr[p] EXCEPT !.pc = "p_write",
                        !.avail = slots[pr[p].sid].booked_count < pr[p].cap])
       ELSE Finish(p)
    /\ UNCHANGED <<bookings, slots>>

\* AvailabilityRepository.update_slot_capacity: update_one
CapacityWrite(p) ==
    /\ pr[p].op = "capacity" /\ pr[p].pc = "p_write"
    /\ slots' = IF pr[p].sid \in DOMAIN slots
                THEN [slots EXCEPT ![pr[p].sid].max_capacity = pr[p].cap,
                                   ![pr[p].sid].is_available = pr[p].avail]
                ELSE slots
    /\ Finish(p)
    /\ UNCHANGED bookings

(***************************************************************************)
(* Requests over several dates carry a list of distinct days.              *)
(***************************************************************************)
DateLists ==
    {<<d>> : d \in Days} \cup
    {<<d, e>> : <<d, e>> \in {x \in Days \X Days : x[1] # x[2]}}

\* the time slots of the template the owner applies
TemplateSlots == <<"09:00-10:00">>

\* a range query $gte midnight, $lte 23:59:59.999999 of the day
OnDay(date, day) == date.day = day

SlotsOnDay(day) == {i \in DOMAIN slots : OnDay(slots[i].date, day)}

NewSlot(day, ts, cap) ==
    [date |-> [day |-> day, tod |-> 0], ts |-> ts, max_capacity |-> cap,
     booked_count |-> 0, is_available |-> TRUE]

(***************************************************************************)
(* POST /availability/profiles/{id}/bulk-apply-template                    *)
(* For each date: delete_slots_for_date, then one insert_one per template  *)
(* slot.  BulkApplyTemplateRequest.max_capacity is validated ge=1.         *)
(***************************************************************************)
BulkApplyStart(p) ==
    /\ pr[p].pc = "idle"
    /\ \E ds \in DateLists, c \in 1..MaxCapacity :
         SetPr(p, [Idle EXCEPT !.op = "bulk_apply", !.pc = "ba_del",
                     !.dates = ds, !.cap = c])
    /\ UNCHANGED <<bookings, slots>>

\* the date's earlier slots left in place
BulkApplyKeep(p) ==
    /\ pr[p].op = "bulk_apply" /\ pr[p].pc = "ba_del"
    /\ SetPr(p, [pr[p] EXCEPT !.pc = "ba_ins", !.cnt = 1])
    /\ UNCHANGED <<bookings, slots>>

BulkApplyDelete(p) ==
    /\ pr[p].op = "bulk_apply" /\ pr[p].pc = "ba_del"
    /\ slots' = [i \in DOMAIN slots \ SlotsOnDay(Head(pr[p].dates)) |-> slots[i]]
    /\ pr' = Unref([pr EXCEPT ![p] = [pr[p] EXCEPT !.pc = "ba_ins", !.cnt = 1]],
                   SlotsOnDay(Head(pr[p].dates)))
    /\ UNCHANGED bookings

\* insert_one of template slot number cnt for the date at the head of dates
BulkApplyInsert(p) ==
    /\ pr[p].op = "bulk_apply" /\ pr[p].pc = "ba_ins"
    /\ FreshSlotIds(Head(pr[p].dates)) # {}
    /\ LET fresh == FreshSlotIds(Head(pr[p].dates))
           id == CHOOSE i \in fresh : \A j \in fresh : i[2] <= j[2]
           more == pr[p].cnt < Len(TemplateSlots)
           rest == Tail(pr[p].dates)
       IN /\ slots' = slots @@
                (id :> NewSlot(Head(pr[p].dates), TemplateSlots[pr[p].cnt], pr[p].cap))
          /\ IF more
             THEN SetPr(p, [pr[p] EXCEPT !.cnt = pr[p].cnt + 1])
             ELSE IF rest # <<>>
             THEN SetPr(p, [pr[p] EXCEPT !.pc = "ba_del", !.dates = rest, !.cnt = 0,
                                         !.success_count = @ + 1])
             ELSE SetPr(p, [pr[p] EXCEPT !.pc = "ba_ret", !.dates = rest, !.cnt = 0,
                                         !.success_count = @ + 1])
    /\ UNCHANGED bookings

\* except Exception: failed_dates.append(...), and on to the next date
BulkApplyRaise(p) ==
    /\ pr[p].op = "bulk_apply" /\ pr[p].pc \in {"ba_del", "ba_ins"}
    /\ SetPr(p, [pr[p] EXCEPT
            !.pc = IF Tail(pr[p].dates) # <<>> THEN "ba_del" ELSE "ba_ret",
            !.dates = Tail(pr[p].dates), !.cnt = 0,
            !.failed_dates = Append(@, Head(pr[p].dates))])
    /\ UNCHANGED <<bookings, slots>>

\* return BulkOperationResult(success_count, len(failed_dates), failed_dates, [])
BulkApplyReturn(p) ==
    /\ pr[p].op = "bulk_apply" /\ pr[p].pc = "ba_ret"
    /\ Finish(p)
    /\ UNCHANGED <<bookings, slots>>

(***************************************************************************)
(* DELETE /availability/profiles/{id}/bulk-delete-slots                    *)
(* AvailabilityRepository.bulk_delete_slots: get_dates_with_bookings (one  *)
(* find_one per date), then delete_slots_for_date for every date that is   *)
(* not protected.  cnt is the index of the date the loop is at.            *)
(***************************************************************************)
BulkDeleteStart(p) ==
    /\ pr[p].pc = "idle"
    /\ \E ds \in DateLists :
         SetPr(p, [Idle EXCEPT !.op = "bulk_delete", !.pc = "bd_chk",
                     !.dates = ds, !.cnt = 1])
    /\ UNCHANGED <<bookings, slots>>

HasActiveBooking(day) ==
    \E b \in BookingIds :
        OnDay(bookings[b].date, day) /\ bookings[b].status \in ActiveStatuses

\* get_dates_with_bookings: the find_one for date number cnt
BulkDeleteCheck(p) ==
    /\ pr[p].op = "bulk_delete" /\ pr[p].pc = "bd_chk"
    /\ LET day == pr[p].dates[pr[p].cnt]
           prot == IF HasActiveBooking(day) THEN pr[p].prot \cup {day} ELSE pr[p].prot
       IN IF pr[p].cnt < Len(pr[p].dates)
          THEN SetPr(p, [pr[p] EXCEPT !.prot = prot, !.cnt = pr[p].cnt + 1])
          ELSE SetPr(p, [pr[p] EXCEPT !.prot = prot, !.cnt = 1, !.pc = "bd_del"])
    /\ UNCHANGED <<bookings, slots>>

\* the loop of bulk_delete_slots at date number cnt: skip a protected date,
\* delete_slots_for_date otherwise
BulkDeleteDelete(p) ==
    /\ pr[p].op = "bulk_delete" /\ pr[p].pc = "bd_del"
    /\ LET day == pr[p].dates[pr[p].cnt]
           gone == IF day \in pr[p].prot THEN {} ELSE SlotsOnDay(day)
           \* if deleted > 0: success_count += 1
           n == IF gone # {} THEN pr[p].success_count + 1 ELSE pr[p].success_count
           me == IF pr[p].cnt < Len(pr[p].dates)
                 THEN [pr[p] EXCEPT !.cnt = pr[p].cnt + 1, !.success_count = n]
                 ELSE [pr[p] EXCEPT !.pc = "bd_ret", !.success_count = n]
       IN /\ slots' = [i \in DOMAIN slots \ gone |-> slots[i]]
          /\ pr' = Unref([pr EXCEPT ![p] = me], gone)
    /\ UNCHANGED bookings

\* except Exception: failed_dates.append(date_str)
BulkDeleteRaise(p) ==
    /\ pr[p].op = "bulk_delete" /\ pr[p].pc = "bd_del"
    /\ pr[p].dates[pr[p].cnt] \notin pr[p].prot
    /\ SetPr(p, [pr[p] EXCEPT
            !.pc = IF pr[p].cnt < Len(pr[p].dates) THEN "bd_del" ELSE "bd_ret",
            !.cnt = IF pr[p].cnt < Len(pr[p].dates) THEN @ + 1 ELSE @,
            !.failed_dates = Append(@, pr[p].dates[pr[p].cnt])])
    /\ UNCHANGED <<bookings, slots>>

\* return {success_count, failed_count: len(failed_dates), failed_dates, protected_dates}
BulkDeleteReturn(p) ==
    /\ pr[p].op = "bulk_delete" /\ pr[p].pc = "bd_ret"
    /\ Finish(p)
    /\ UNCHANGED <<bookings, slots>>

(***************************************************************************)
(* A create_booking request may stop between two of its store operations   *)
(* (the store raises, the worker dies): nothing is rolled back, the client *)
(* gets an error.  st keeps the step the request stopped before.  A stop   *)
(* before the insert leaves the store as a rejected request does.          *)
(***************************************************************************)
CreateStop(p) ==
    /\ pr[p].op = "create" /\ pr[p].pc \in {"c_user", "c_conf", "c_incr", "c_incw"}
    /\ SetPr(p, [Idle EXCEPT !.op = "create", !.pc = "stopped", !.bid = pr[p].bid,
                    !.st = pr[p].pc])
    /\ UNCHANGED <<bookings, slots>>

CreateStopped(p) ==
    /\ pr[p].op = "create" /\ pr[p].pc = "stopped"
    /\ Finish(p)
    /\ UNCHANGED <<bookings, slots>>

Init ==
    /\ bookings = <<>>
    /\ slots = <<>>
    /\ pr = [p \in Procs |-> Idle]
    /\ nreq = 0
    /\ pre = NoPre
    /\ templates = <<>>
    /\ preview = NoPreview
    /\ overlapped = {}

\* A request goes to the first free unit, and is taken up only while fewer
\* than MaxRequests were taken up.
Budget(p) ==
    /\ IF pr[p].pc = "idle" /\ pr'[p].pc # "idle"
       THEN /\ \A q \in Procs : q < p => pr[q].pc # "idle"
            /\ nreq < MaxRequests
            /\ nreq' = nreq + 1
       ELSE nreq' = nreq
    /\ UNCHANGED <<pre, templates, preview, overlapped>>

\* requests of all units interleaved at store operations
Next ==
    \E p \in Procs :
        \/ CreateFindSlot(p, MidnightDates) /\ Budget(p)
        \/ CreateCheckDuplicate(p) /\ Budget(p)
        \/ CreateCheckCapacity(p) /\ Budget(p)
        \/ CreateInsert(p) /\ Budget(p)
        \/ CreateReadUser(p) /\ Budget(p)
        \/ CreateAutoConfirm(p) /\ Budget(p)
        \/ CreateIncrementRead(p) /\ Budget(p)
        \/ CreateIncrementWrite(p) /\ Budget(p)
        \/ OwnerStatusCheck(p) /\ Budget(p)
        \/ OwnerStatusSet(p) /\ Budget(p)
        \/ OwnerStatusReread(p) /\ Budget(p)
        \/ OwnerStatusFindSlot(p) /\ Budget(p)
        \/ OwnerStatusIncrementRead(p) /\ Budget(p)
        \/ OwnerStatusIncrementWrite(p) /\ Budget(p)
        \/ CancelCheck(p) /\ Budget(p)
        \/ CancelFindSlot(p) /\ Budget(p)
        \/ CancelDecrementRead(p) /\ Budget(p)
        \/ CancelDecrementWrite(p) /\ Budget(p)
        \/ CancelSet(p) /\ Budget(p)
        \/ UserRescheduleCheck(p, MidnightDates) /\ Budget(p)
        \/ UserRescheduleFindSlot(p) /\ Budget(p)
        \/ UserRescheduleCheckDuplicate(p) /\ Budget(p)
        \/ UserRescheduleCheckCapacity(p) /\ Budget(p)
        \/ UserRescheduleSet(p) /\ Budget(p)
        \/ AdminStatusCheck(p) /\ Budget(p)
        \/ AdminStatusSet(p) /\ Budget(p)
        \/ AdminRescheduleCheck(p, MidnightDates) /\ Budget(p)
        \/ AdminRescheduleSet(p) /\ Budget(p)
        \/ CapacityGetSlot(p) /\ Budget(p)
        \/ CapacityRead(p) /\ Budget(p)
        \/ CapacityWrite(p) /\ Budget(p)
        \/ BulkApplyStart(p) /\ Budget(p)
        \/ BulkApplyDelete(p) /\ Budget(p)
        \/ BulkApplyInsert(p) /\ Budget(p)
        \/ BulkApplyReturn(p) /\ Budget(p)
        \/ BulkDeleteStart(p) /\ Budget(p)
        \/ BulkDeleteCheck(p) /\ Budget(p)
        \/ BulkDeleteDelete(p) /\ Budget(p)
        \/ BulkDeleteReturn(p) /\ Budget(p)
        \/ CreateStop(p) /\ UNCHANGED <<nreq, pre, templates, preview, overlapped>>
        \/ CreateStopped(p) /\ UNCHANGED <<nreq, pre, templates, preview, overlapped>>

Spec == Init /\ [][Next]_vars

\* one request at a time, each run to completion: a single unit
SeqProcs == {1}

\* pre is the store at the arrival of the request that is running
Snapshot(p) ==
    /\ pre' = IF pr'[p].pc = "idle" THEN NoPre
              ELSE IF pr[p].pc = "idle" THEN [bookings |-> bookings, slots |-> slots]
              ELSE pre
    /\ UNCHANGED <<nreq, templates, preview, overlapped>>

SeqNext ==
    \E p \in SeqProcs :
        \/ CreateFindSlot(p, RequestDates) /\ Snapshot(p)
        \/ CreateCheckDuplicate(p) /\ Snapshot(p)
        \/ CreateCheckCapacity(p) /\ Snapshot(p)
        \/ CreateInsert(p) /\ Snapshot(p)
        \/ CreateReadUser(p) /\ Snapshot(p)
        \/ CreateAutoConfirm(p) /\ Snapshot(p)
        \/ CreateIncrementRead(p) /\ Snapshot(p)
        \/ CreateIncrementWrite(p) /\ Snapshot(p)
        \/ OwnerStatusCheck(p) /\ Snapshot(p)
        \/ OwnerStatusSet(p) /\ Snapshot(p)
        \/ OwnerStatusReread(p) /\ Snapshot(p)
        \/ OwnerStatusFindSlot(p) /\ Snapshot(p)
        \/ OwnerStatusIncrementRead(p) /\ Snapshot(p)
        \/ OwnerStatusIncrementWrite(p) /\ Snapshot(p)
        \/ CancelCheck(p) /\ Snapshot(p)
        \/ CancelFindSlot(p) /\ Snapshot(p)
        \/ CancelDecrementRead(p) /\ Snapshot(p)
        \/ CancelDecrementWrite(p) /\ Snapshot(p)
        \/ CancelSet(p) /\ Snapshot(p)
        \/ UserRescheduleCheck(p, RequestDates) /\ Snapshot(p)
        \/ UserRescheduleFindSlot(p) /\ Snapshot(p)
        \/ UserRescheduleCheckDuplicate(p) /\ Snapshot(p)
        \/ UserRescheduleCheckCapacity(p) /\ Snapshot(p)
        \/ UserRescheduleSet(p) /\ Snapshot(p)
        \/ AdminStatusCheck(p) /\ Snapshot(p)
        \/ AdminStatusSet(p) /\ Snapshot(p)
        \/ AdminRescheduleCheck(p, RequestDates) /\ Snapshot(p)
        \/ AdminRescheduleSet(p) /\ Snapshot(p)
        \/ CapacityGetSlot(p) /\ Snapshot(p)
        \/ CapacityRead(p) /\ Snapshot(p)
        \/ CapacityWrite(p) /\ Snapshot(p)
        \/ BulkApplyStart(p) /\ Snapshot(p)
        \/ BulkApplyDelete(p) /\ Snapshot(p)
        \/ BulkApplyInsert(p) /\ Snapshot(p)
        \/ BulkApplyReturn(p) /\ Snapshot(p)
        \/ BulkDeleteStart(p) /\ Snapshot(p)
        \/ BulkDeleteCheck(p) /\ Snapshot(p)
        \/ BulkDeleteDelete(p) /\ Snapshot(p)
        \/ BulkDeleteReturn(p) /\ Snapshot(p)

SeqSpec == Init /\ [][SeqNext]_vars

(***************************************************************************)
(* The occupancy counter on its own: calls of increment_booked_count,      *)
(* decrement_booked_count and update_slot_capacity on a stored slot, from  *)
(* any count the slot may have, the calls of the units interleaved at      *)
(* their store operations.                                                 *)
(***************************************************************************)
\* calls made in one behaviour
MaxCalls == 5

CounterInit ==
    /\ bookings = <<>>
    /\ slots \in {(<<1, 1>> :> [NewSlot(1, ts, cap) EXCEPT
                                  !.booked_count = n, !.is_available = n < cap]) :
                     ts \in TimeSlots, cap \in 1..MaxCapacity, n \in 0..MaxCapacity}
    /\ pr = [p \in Procs |-> Idle]
    /\ nreq = 0
    /\ pre = NoPre
    /\ templates = <<>>
    /\ preview = NoPreview
    /\ overlapped = {}

CounterCallIncrement(p) ==
    /\ pr[p].pc = "idle"
    /\ \E s \in SlotIds :
         SetPr(p, [Idle EXCEPT !.op = "increment", !.pc = "n_incr", !.sid = s])
    /\ UNCHANGED <<bookings, slots>>

CounterIncrementRead(p) ==
    /\ pr[p].op = "increment" /\ pr[p].pc = "n_incr"
    /\ IncrementRead(p, "n_incw", Finish(p))

CounterIncrementWrite(p) ==
    /\ pr[p].op = "increment" /\ pr[p].pc = "n_incw"
    /\ CountWrite(p)
    /\ Finish(p)
    /\ UNCHANGED bookings

CounterCallDecrement(p) ==
    /\ pr[p].pc = "idle"
    /\ \E s \in SlotIds :
         SetPr(p, [Idle EXCEPT !.op = "decrement", !.pc = "n_decr", !.sid = s])
    /\ UNCHANGED <<bookings, slots>>

CounterDecrementRead(p) ==
    /\ pr[p].op = "decrement" /\ pr[p].pc = "n_decr"
    /\ DecrementRead(p, "n_decw", Finish(p))

CounterDecrementWrite(p) ==
    /\ pr[p].op = "decrement" /\ pr[p].pc = "n_decw"
    /\ CountWrite(p)
    /\ Finish(p)
    /\ UNCHANGED bookings

\* a call is made only while fewer than MaxCalls were made
Calls(p) ==
    /\ IF pr[p].pc = "idle" /\ pr'[p].pc # "idle"
       THEN nreq < MaxCalls /\ nreq' = nreq + 1
       ELSE nreq' = nreq
    /\ UNCHANGED <<pre, templates, preview, overlapped>>

CounterNext ==
    \E p \in Procs :
        \/ CounterCallIncrement(p) /\ Calls(p)
        \/ CounterIncrementRead(p) /\ Calls(p)
        \/ CounterIncrementWrite(p) /\ Calls(p)
        \/ CounterCallDecrement(p) /\ Calls(p)
        \/ CounterDecrementRead(p) /\ Calls(p)
        \/ CounterDecrementWrite(p) /\ Calls(p)
        \/ CapacityGetSlot(p) /\ Calls(p)
        \/ CapacityRead(p) /\ Calls(p)
        \/ CapacityWrite(p) /\ Calls(p)

CounterSpec == CounterInit /\ [][CounterNext]_vars

(***************************************************************************)
(* BookingRepository.create_booking with its booking_ref: generate_booking_ref *)
(* draws a code, _booking_ref_exists looks it up, _get_unique_booking_ref   *)
(* repeats until the lookup finds nothing, and insert_one stores the        *)
(* document under the unique index on bookings.booking_ref.  The stored     *)
(* documents here carry the field ref.  token_hex(3) has 16^6 values; the   *)
(* model draws from MaxRefs so that two draws do collide.                    *)
(***************************************************************************)
MaxRefs == 3

Refs == 1..MaxRefs

RefInit ==
    /\ bookings = <<>>
    /\ slots = <<>>
    /\ pr = [p \in Procs |-> Idle]
    /\ nreq = 0
    /\ pre = NoPre
    /\ templates = <<>>
    /\ preview = NoPreview
    /\ overlapped = {}

\* no unique index: every document is admitted
IndexAdmitsAny(ref) == TRUE

\* db.bookings.create_index("booking_ref", unique=True)
UniqueIndexAdmits(ref) == \A b \in BookingIds : bookings[b].ref # ref

RefCallCreate(p) ==
    /\ pr[p].pc = "idle"
    /\ \E u \in Users, d \in {[day |-> 1, tod |-> 0]}, ts \in TimeSlots :
         SetPr(p, [Idle EXCEPT !.op = "create_booking", !.pc = "g_gen",
                               !.user = u, !.date = d, !.ts = ts])
    /\ UNCHANGED <<bookings, slots>>

\* ref = generate_booking_ref()
RefGenerate(p) ==
    /\ pr[p].op = "create_booking" /\ pr[p].pc = "g_gen"
    /\ \E r \in Refs : SetPr(p, [pr[p] EXCEPT !.ref = r, !.pc = "g_chk"])
    /\ UNCHANGED <<bookings, slots>>

\* if not _booking_ref_exists(ref): return ref
RefCheckExists(p) ==
    /\ pr[p].op = "create_booking" /\ pr[p].pc = "g_chk"
    /\ IF \E b \in BookingIds : bookings[b].ref = pr[p].ref
       THEN SetPr(p, [pr[p] EXCEPT !.pc = "g_gen"])
       ELSE SetPr(p, [pr[p] EXCEPT !.pc = "g_ins"])
    /\ UNCHANGED <<bookings, slots>>

\* mongo_db.insert_one: a duplicate key raises and stores nothing
RefInsert(p) ==
    /\ pr[p].op = "create_booking" /\ pr[p].pc = "g_ins"
    /\ IF UniqueIndexAdmits(pr[p].ref)
       THEN bookings' = Append(bookings,
                [user |-> pr[p].user, date |-> pr[p].date, ts |-> pr[p].ts,
                 status |-> "PENDING", ref |-> pr[p].ref])
       ELSE UNCHANGED bookings
    /\ Finish(p)
    /\ UNCHANGED slots

RefNext ==
    \E p \in Procs :
        \/ RefCallCreate(p) /\ Calls(p)
        \/ RefGenerate(p) /\ Calls(p)
        \/ RefCheckExists(p) /\ Calls(p)
        \/ RefInsert(p) /\ Calls(p)

RefSpec == RefInit /\ [][RefNext]_vars

(***************************************************************************)
(* The slot templates: the routes create_template, update_template and     *)
(* delete_template with the SlotTemplateRepository functions they call, one *)
(* request at a time.  A template document is its owner_id and is_default;  *)
(* the request's is_default is "true", "false" or "none" (not given).       *)
(***************************************************************************)
MaxTemplates == 3

TemplateIds == 1..MaxTemplates

TemplateInit ==
    /\ bookings = <<>>
    /\ slots = <<>>
    /\ pr = [p \in Procs |-> Idle]
    /\ nreq = 0
    /\ pre = NoPre
    /\ templates = <<>>
    /\ preview = NoPreview
    /\ overlapped = {}

\* the collection with one more document
WithTemplate(t, doc) ==
    [x \in DOMAIN templates \cup {t} |-> IF x = t THEN doc ELSE templates[x]]

\* the defaults left as they are
KeepDefaults(owner, except) == templates

\* update_one in place of update_many: one default of the owner is unset
UnsetOneDefault(owner, except) ==
    LET found == {t \in DOMAIN templates :
                    templates[t].owner = owner /\ templates[t].is_default /\ t # except}
    IN  IF found = {} THEN templates
        ELSE LET first == CHOOSE t \in found : \A u \in found : t <= u
             IN  [templates EXCEPT ![first].is_default = FALSE]

\* update_many({"owner_id": owner, "is_default": True [, "id": {"$ne": except}]},
\*             {"$set": {"is_default": False}})
UnsetDefaults(owner, except) ==
    [t \in DOMAIN templates |->
        IF templates[t].owner = owner /\ templates[t].is_default /\ t # except
        THEN [templates[t] EXCEPT !.is_default = FALSE]
        ELSE templates[t]]

TemplateCreateCall(p) ==
    /\ pr[p].pc = "idle"
    /\ DOMAIN templates # TemplateIds
    /\ \E u \in Users, d \in {"true", "false"} :
         SetPr(p, [Idle EXCEPT !.op = "create_template", !.user = u,
                               !.is_default = d,
                               !.pc = IF d = "true" THEN "t_unset" ELSE "t_ins"])
    /\ UNCHANGED templates

TemplateCreateUnset(p) ==
    /\ pr[p].op = "create_template" /\ pr[p].pc = "t_unset"
    /\ templates' = UnsetDefaults(pr[p].user, 0)
    /\ SetPr(p, [pr[p] EXCEPT !.pc = "t_ins"])

TemplateCreateInsert(p) ==
    /\ pr[p].op = "create_template" /\ pr[p].pc = "t_ins"
    /\ \E t \in TemplateIds \ DOMAIN templates :
         templates' = WithTemplate(t, [owner |-> pr[p].user,
                                       is_default |-> (pr[p].is_default = "true")])
    /\ Finish(p)

\* the route: 404 when the template is missing, 403 when it is another owner's
TemplateUpdateCall(p) ==
    /\ pr[p].pc = "idle"
    /\ \E u \in Users, t \in TemplateIds, d \in {"true", "false", "none"} :
         /\ t \in DOMAIN templates
         /\ templates[t].owner = u
         /\ SetPr(p, [Idle EXCEPT !.op = "update_template", !.user = u,
                                  !.tid = t, !.is_default = d, !.pc = "u_get"])
    /\ UNCHANGED templates

TemplateUpdateGet(p) ==
    /\ pr[p].op = "update_template" /\ pr[p].pc = "u_get"
    /\ IF pr[p].tid \notin DOMAIN templates
       THEN Finish(p)
       ELSE SetPr(p, [pr[p] EXCEPT
                !.pc = IF pr[p].is_default = "true" THEN "u_unset" ELSE "u_set"])
    /\ UNCHANGED templates

TemplateUpdateUnset(p) ==
    /\ pr[p].op = "update_template" /\ pr[p].pc = "u_unset"
    /\ templates' = UnsetDefaults(pr[p].user, pr[p].tid)
    /\ SetPr(p, [pr[p] EXCEPT !.pc = "u_set"])

TemplateUpdateSet(p) ==
    /\ pr[p].op = "update_template" /\ pr[p].pc = "u_set"
    /\ templates' =
         IF pr[p].tid \in DOMAIN templates /\ pr[p].is_default # "none"
         THEN [templates EXCEPT ![pr[p].tid].is_default = (pr[p].is_default = "true")]
         ELSE templates
    /\ Finish(p)

TemplateDeleteCall(p) ==
    /\ pr[p].pc = "idle"
    /\ \E u \in Users, t \in TemplateIds :
         /\ t \in DOMAIN templates
         /\ templates[t].owner = u
         /\ SetPr(p, [Idle EXCEPT !.op = "delete_template", !.user = u,
                                  !.tid = t, !.pc = "d_del"])
    /\ UNCHANGED templates

TemplateDeleteDelete(p) ==
    /\ pr[p].op = "delete_template" /\ pr[p].pc = "d_del"
    /\ templates' = [t \in DOMAIN templates \ {pr[p].tid} |-> templates[t]]
    /\ Finish(p)

TemplateFrame == UNCHANGED <<bookings, slots, nreq, pre, preview, overlapped>>

TemplateNext ==
    \E p \in SeqProcs :
        \/ TemplateCreateCall(p) /\ TemplateFrame
        \/ TemplateCreateUnset(p) /\ TemplateFrame
        \/ TemplateCreateInsert(p) /\ TemplateFrame
        \/ TemplateUpdateCall(p) /\ TemplateFrame
        \/ TemplateUpdateGet(p) /\ TemplateFrame
        \/ TemplateUpdateUnset(p) /\ TemplateFrame
        \/ TemplateUpdateSet(p) /\ TemplateFrame
        \/ TemplateDeleteCall(p) /\ TemplateFrame
        \/ TemplateDeleteDelete(p) /\ TemplateFrame

TemplateSpec == TemplateInit /\ [][TemplateNext]_vars

(***************************************************************************)
(* The template requests of two units with their store operations           *)
(* interleaved.  overlapped holds the units whose request in flight has had *)
(* a step while, or has seen a step of, another request in flight.          *)
(***************************************************************************)
TemplateRace(p) ==
    /\ IF pr[p].pc = "idle" /\ pr'[p].pc # "idle"
       THEN nreq < MaxCalls /\ nreq' = nreq + 1
       ELSE nreq' = nreq
    /\ LET others == {q \in Procs \ {p} : pr[q].pc # "idle"}
           seen   == IF others # {} THEN overlapped \cup others \cup {p} ELSE overlapped
       IN  overlapped' = {q \in seen : pr'[q].pc # "idle"}
    /\ UNCHANGED <<bookings, slots, pre, preview>>

TemplateRaceNext ==
    \E p \in Procs :
        \/ TemplateCreateCall(p) /\ TemplateRace(p)
        \/ TemplateCreateUnset(p) /\ TemplateRace(p)
        \/ TemplateCreateInsert(p) /\ TemplateRace(p)
        \/ TemplateUpdateCall(p) /\ TemplateRace(p)
        \/ TemplateUpdateGet(p) /\ TemplateRace(p)
        \/ TemplateUpdateUnset(p) /\ TemplateRace(p)
        \/ TemplateUpdateSet(p) /\ TemplateRace(p)
        \/ TemplateDeleteCall(p) /\ TemplateRace(p)
        \/ TemplateDeleteDelete(p) /\ TemplateRace(p)

TemplateRaceSpec == TemplateInit /\ [][TemplateRaceNext]_vars

(***************************************************************************)
(* SlotTemplateRepository.generate_slots_preview.  A time string "HH:MM"   *)
(* is the tuple of its four digits, so that split(":") with int() and the   *)
(* 02d formatting are computed; the empty string and None are <<>>.         *)
(***************************************************************************)
MaxHour == 10

PreviewHours == {MaxHour - 1, MaxHour}

PreviewMinutes == {0, 15, 30, 45}

TimeStrings ==
    {<<h \div 10, h % 10, m \div 10, m % 10>> : h \in PreviewHours, m \in PreviewMinutes}

NoTime == <<>>

\* GenerateTemplatePreview.slot_duration: ge=5, le=240
SlotDurations == {5, 20, 30, 45, 90, 240}

\* int(parts[0]), int(parts[1]) of s.split(":")
ParseHour(s) == s[1] * 10 + s[2]

ParseMin(s) == s[3] * 10 + s[4]

\* f"{hour:02d}:{minute:02d}"
FormatTime(hour, minute) ==
    <<hour \div 10, hour % 10, minute \div 10, minute % 10>>

\* the end test admitting no slot that ends at end_time
ReachesEnd(slot_end_hour, slot_end_min, end_hour, end_min) ==
    slot_end_hour > end_hour \/ (slot_end_hour = end_hour /\ slot_end_min >= end_min)

\* slot_end_hour > end_hour or (slot_end_hour == end_hour and slot_end_min > end_min)
ExceedsEnd(slot_end_hour, slot_end_min, end_hour, end_min) ==
    slot_end_hour > end_hour \/ (slot_end_hour = end_hour /\ slot_end_min > end_min)

\* the break test that finds no slot in the break
InNoBreak(slot_start_minutes, slot_end_minutes, break_start_minutes, break_end_minutes) ==
    FALSE

\* the break test that is deaf to where the slot starts
EndsAfterBreakStart(slot_start_minutes, slot_end_minutes, break_start_minutes, break_end_minutes) ==
    slot_end_minutes > break_start_minutes

\* not (slot_end_minutes <= break_start_minutes or slot_start_minutes >= break_end_minutes)
InBreak(slot_start_minutes, slot_end_minutes, break_start_minutes, break_end_minutes) ==
    ~(slot_end_minutes <= break_start_minutes \/ slot_start_minutes >= break_end_minutes)

RECURSIVE PreviewLoop(_, _, _, _, _, _, _, _)
\* the while True loop from (current_hour, current_min)
PreviewLoop(current_hour, current_min, end_hour, end_min, slot_duration, has_break, break_start_minutes, break_end_minutes) ==
    LET sum           == current_min + slot_duration
        slot_end_hour == IF sum >= 60 THEN current_hour + sum \div 60 ELSE current_hour
        slot_end_min  == IF sum >= 60 THEN sum % 60 ELSE sum
    IN  IF ExceedsEnd(slot_end_hour, slot_end_min, end_hour, end_min)
        THEN <<>>
        ELSE IF has_break /\ InBreak(current_hour * 60 + current_min,
                                      slot_end_hour * 60 + slot_end_min,
                                      break_start_minutes, break_end_minutes)
        THEN PreviewLoop(break_end_minutes \div 60, break_end_minutes % 60,
                         end_hour, end_min, slot_duration,
                         has_break, break_start_minutes, break_end_minutes)
        ELSE <<[start_time |-> FormatTime(current_hour, current_min),
                end_time |-> FormatTime(slot_end_hour, slot_end_min)]>>
             \o PreviewLoop(slot_end_hour, slot_end_min, end_hour, end_min,
                            slot_duration,
                            has_break, break_start_minutes, break_end_minutes)

generate_slots_preview(start_time, end_time, slot_duration, break_start, break_end) ==
    LET has_break == break_start # NoTime /\ break_end # NoTime
        break_start_minutes ==
            IF has_break THEN ParseHour(break_start) * 60 + ParseMin(break_start) ELSE 0
        break_end_minutes ==
            IF has_break THEN ParseHour(break_end) * 60 + ParseMin(break_end) ELSE 0
    IN  PreviewLoop(ParseHour(start_time), ParseMin(start_time),
                    ParseHour(end_time), ParseMin(end_time), slot_duration,
                    has_break, break_start_minutes, break_end_minutes)

PreviewInit ==
    /\ bookings = <<>>
    /\ slots = <<>>
    /\ pr = [p \in Procs |-> Idle]
    /\ nreq = 0
    /\ pre = NoPre
    /\ templates = <<>>
    /\ preview \in [start_time : TimeStrings, end_time : TimeStrings,
                     slot_duration : SlotDurations,
                     break_start : TimeStrings \cup {NoTime},
                     break_end : TimeStrings \cup {NoTime},
                     done : {FALSE}, slots : {<<>>}]
    /\ overlapped = {}

\* the route generate_template_preview
GeneratePreview ==
    /\ ~preview.done
    /\ preview' = [preview EXCEPT
            !.done = TRUE,
            !.slots = generate_slots_preview(preview.start_time, preview.end_time,
                          preview.slot_duration, preview.break_start, preview.break_end)]
    /\ UNCHANGED <<bookings, slots, pr, nreq, pre, templates, overlapped>>

PreviewNext == GeneratePreview

PreviewSpec == PreviewInit /\ [][PreviewNext]_vars

(***************************************************************************)
(* POST /availability/profiles/{id}/slots: create_availability_slots and    *)
(* AvailabilityRepository.create_slots_for_date, one iteration of its       *)
(* while True loop per step.  A time_slot "HH:MM-HH:MM" is the pair of its   *)
(* two time strings.  TimeSlotConfig validates nothing but the types, so    *)
(* slot_duration and max_capacity_per_slot are any integers; the loop of a  *)
(* config whose cursor does not advance inserts without end, which the      *)
(* model follows up to MaxInserts documents.                                *)
(***************************************************************************)
MaxInserts == 6

ConfigDurations == {0, 20, 30, 45, 90}

ConfigCapacities == 0..MaxCapacity

Configs ==
    [start_time : TimeStrings, end_time : TimeStrings,
     slot_duration : ConfigDurations, max_capacity_per_slot : ConfigCapacities]

\* a slot that earlier requests created and booked
BookedSlot ==
    [NewSlot(1, <<FormatTime(MaxHour - 1, 0), FormatTime(MaxHour - 1, 30)>>, 1)
        EXCEPT !.booked_count = 1, !.is_available = FALSE]

GenInit ==
    /\ bookings = <<>>
    /\ slots \in {<<>>, (<<1, 1>> :> BookedSlot)}
    /\ pr = [p \in Procs |-> Idle]
    /\ nreq = 0
    /\ pre = NoPre
    /\ templates = <<>>
    /\ preview = NoPreview
    /\ overlapped = {}

\* the end test on the hours alone
PastEndHour(slot_end_hour, slot_end_min, end_hour, end_min) ==
    slot_end_hour > end_hour

\* slot_end_hour > end_hour or (slot_end_hour == end_hour and slot_end_min > end_min)
PastEnd(slot_end_hour, slot_end_min, end_hour, end_min) ==
    slot_end_hour > end_hour \/ (slot_end_hour = end_hour /\ slot_end_min > end_min)

\* str(uuid.uuid4()): an id no document of the day has
NextSlotId(day) == <<day, Cardinality(SlotsOnDay(day)) + 1>>

CreateSlotsCall(p) ==
    /\ pr[p].pc = "idle"
    /\ \E d \in RequestDates, c \in Configs :
         SetPr(p, [Idle EXCEPT !.op = "create_slots", !.pc = "g_loop",
                               !.date = Normalize(d), !.config = c,
                               !.current_hour = ParseHour(c.start_time),
                               !.current_min = ParseMin(c.start_time)])
    /\ UNCHANGED <<bookings, slots>>

\* one iteration of the while True loop
CreateSlotsIterate(p) ==
    /\ pr[p].op = "create_slots" /\ pr[p].pc = "g_loop"
    /\ LET c             == pr[p].config
           sum           == pr[p].current_min + c.slot_duration
           slot_end_hour == IF sum >= 60 THEN pr[p].current_hour + sum \div 60
                            ELSE pr[p].current_hour
           slot_end_min  == IF sum >= 60 THEN sum % 60 ELSE sum
           time_slot     == <<FormatTime(pr[p].current_hour, pr[p].current_min),
                              FormatTime(slot_end_hour, slot_end_min)>>
           id            == NextSlotId(pr[p].date.day)
       IN  IF PastEnd(slot_end_hour, slot_end_min,
                      ParseHour(c.end_time), ParseMin(c.end_time))
           THEN Finish(p) /\ UNCHANGED slots
           ELSE /\ Len(pr[p].created_slots) < MaxInserts
                /\ slots' = slots @@
                      (id :> NewSlot(pr[p].date.day, time_slot, c.max_capacity_per_slot))
                /\ SetPr(p, [pr[p] EXCEPT
                        !.created_slots = Append(@, id),
                        !.current_hour = slot_end_hour,
                        !.current_min = slot_end_min])
    /\ UNCHANGED bookings

\* one request is made; pre is the store as it found it
OneCall(p) ==
    /\ IF pr[p].pc = "idle" /\ pr'[p].pc # "idle"
       THEN nreq = 0 /\ nreq' = 1
       ELSE nreq' = nreq
    /\ pre' = IF pr'[p].pc = "idle" THEN NoPre
              ELSE IF pr[p].pc = "idle" THEN [bookings |-> bookings, slots |-> slots]
              ELSE pre
    /\ UNCHANGED <<templates, preview, overlapped>>

GenNext ==
    \E p \in SeqProcs :
        \/ CreateSlotsCall(p) /\ OneCall(p)
        \/ CreateSlotsIterate(p) /\ OneCall(p)

GenSpec == GenInit /\ [][GenNext]_vars

\* a request that is being served keeps being served
FairGenSpec == GenSpec /\ WF_vars(GenNext)

(***************************************************************************)
(* The bulk operations with what they return, one request at a time, on a  *)
(* profile with or without an active booking; a store operation inside the  *)
(* per-date try block may raise.                                            *)
(***************************************************************************)
BulkInit ==
    /\ bookings \in {<<>>,
                      <<[user |-> 2, date |-> [day |-> 1, tod |-> 0],
                         ts |-> TemplateSlots[1], status |-> "PENDING"]>>}
    /\ slots = <<>>
    /\ pr = [p \in Procs |-> Idle]
    /\ nreq = 0
    /\ pre = NoPre
    /\ templates = <<>>
    /\ preview = NoPreview
    /\ overlapped = {}

\* up to MaxCalls requests; pre is the store as the running request found it
Requests(p) ==
    /\ IF pr[p].pc = "idle" /\ pr'[p].pc # "idle"
       THEN nreq < MaxCalls /\ nreq' = nreq + 1
       ELSE nreq' = nreq
    /\ pre' = IF pr'[p].pc = "idle" THEN NoPre
              ELSE IF pr[p].pc = "idle" THEN [bookings |-> bookings, slots |-> slots]
              ELSE pre
    /\ UNCHANGED <<templates, preview, overlapped>>

BulkNext ==
    \E p \in SeqProcs :
        \/ BulkApplyStart(p) /\ Requests(p)
        \/ BulkApplyDelete(p) /\ Requests(p)
        \/ BulkApplyInsert(p) /\ Requests(p)
        \/ BulkApplyRaise(p) /\ Requests(p)
        \/ BulkApplyReturn(p) /\ Requests(p)
        \/ BulkDeleteStart(p) /\ Requests(p)
        \/ BulkDeleteCheck(p) /\ Requests(p)
        \/ BulkDeleteDelete(p) /\ Requests(p)
        \/ BulkDeleteRaise(p) /\ Requests(p)
        \/ BulkDeleteReturn(p) /\ Requests(p)

BulkSpec == BulkInit /\ [][BulkNext]_vars

(***************************************************************************)
(* The owner confirming or rejecting the PENDING bookings of one slot, the  *)
(* requests of two units interleaved.                                       *)
(***************************************************************************)
ConfirmInit ==
    /\ bookings = [b \in 1..MaxBookings |->
                      [user |-> b, date |-> [day |-> 1, tod |-> 0],
                       ts |-> TemplateSlots[1], status |-> "PENDING"]]
    /\ slots \in {(<<1, 1>> :> NewSlot(1, TemplateSlots[1], cap)) : cap \in 1..MaxCapacity}
    /\ pr = [p \in Procs |-> Idle]
    /\ nreq = 0
    /\ pre = NoPre
    /\ templates = <<>>
    /\ preview = NoPreview
    /\ overlapped = {}

ConfirmNext ==
    \E p \in Procs :
        \/ OwnerStatusCheck(p) /\ Calls(p)
        \/ OwnerStatusSet(p) /\ Calls(p)
        \/ OwnerStatusReread(p) /\ Calls(p)
        \/ OwnerStatusFindSlot(p) /\ Calls(p)
        \/ OwnerStatusIncrementRead(p) /\ Calls(p)
        \/ OwnerStatusIncrementWrite(p) /\ Calls(p)

ConfirmSpec == ConfirmInit /\ [][ConfirmNext]_vars

(***************************************************************************)
(* DELETE /availability/slots/{id}: delete_slot.  get_slot, the ownership   *)
(* check, then delete_one by id.  Run with the other operations that take   *)
(* a slot away from a booking or a booking away from its slot, on a store   *)
(* that holds one slot and its one active booking.                          *)
(***************************************************************************)
DeleteSlotGet(p) ==
    /\ pr[p].pc = "idle"
    /\ \E s \in SlotIds :
         IF s \notin DOMAIN slots
         THEN pr' = pr     \* 404
         ELSE SetPr(p, [Idle EXCEPT !.op = "delete_slot", !.pc = "ds_del", !.sid = s])
    /\ UNCHANGED <<bookings, slots>>

DeleteSlotDelete(p) ==
    /\ pr[p].op = "delete_slot" /\ pr[p].pc = "ds_del"
    /\ slots' = [i \in DOMAIN slots \ {pr[p].sid} |-> slots[i]]
    /\ Finish(p)
    /\ UNCHANGED bookings

RemovalInit ==
    /\ \E st \in ActiveStatuses :
         /\ bookings = <<[user |-> 2, date |-> [day |-> 1, tod |-> 0],
                          ts |-> TemplateSlots[1], status |-> st]>>
         /\ slots = (<<1, 1>> :> [NewSlot(1, TemplateSlots[1], MaxCapacity) EXCEPT
                                    !.booked_count = IF st = "CONFIRMED" THEN 1 ELSE 0])
    /\ pr = [p \in Procs |-> Idle]
    /\ nreq = 0
    /\ pre = NoPre
    /\ templates = <<>>
    /\ preview = NoPreview
    /\ overlapped = {}

RemovalNext ==
    \E p \in SeqProcs :
        \/ DeleteSlotGet(p) /\ Requests(p)
        \/ DeleteSlotDelete(p) /\ Requests(p)
        \/ AdminRescheduleCheck(p, RequestDates) /\ Requests(p)
        \/ AdminRescheduleSet(p) /\ Requests(p)
        \/ BulkApplyStart(p) /\ Requests(p)
        \/ BulkApplyDelete(p) /\ Requests(p)
        \/ BulkApplyInsert(p) /\ Requests(p)
        \/ BulkApplyRaise(p) /\ Requests(p)
        \/ BulkApplyReturn(p) /\ Requests(p)
        \/ BulkDeleteStart(p) /\ Requests(p)
        \/ BulkDeleteCheck(p) /\ Requests(p)
        \/ BulkDeleteDelete(p) /\ Requests(p)
        \/ BulkDeleteRaise(p) /\ Requests(p)
        \/ BulkDeleteReturn(p) /\ Requests(p)

RemovalSpec == RemovalInit /\ [][RemovalNext]_vars

(***************************************************************************)
(* create_booking with the checks that precede the slot lookup: the         *)
(* profile, the service, the date against today's date and, for a booking   *)
(* of today, the slot's start against the clock.  A check that fails raises *)
(* HTTPException; st keeps the reason.                                      *)
(***************************************************************************)
\* a booking_date whose date() is before today's
PastDates == {[day |-> 0, tod |-> 0]}

CreateValidate(p) ==
    /\ pr[p].pc = "idle"
    /\ RoomForBooking
    /\ \E u \in Users, d \in PastDates \cup RequestDates, ts \in TimeSlots,
          profile_found \in BOOLEAN, service_exists \in BOOLEAN,
          is_today \in BOOLEAN, passed \in BOOLEAN :
         LET reason == IF ~profile_found THEN "profile_not_found"
                       ELSE IF ~service_exists THEN "service_not_found"
                       ELSE IF d \in PastDates THEN "past_date"
                       ELSE IF is_today /\ passed THEN "slot_passed"
                       ELSE "none"
         IN  IF reason # "none"
             THEN SetPr(p, [Idle EXCEPT !.op = "create", !.pc = "c_rej", !.st = reason])
             ELSE SetPr(p, [Idle EXCEPT !.op = "create", !.pc = "c_find", !.user = u,
                              !.date = d, !.ts = ts])
    /\ UNCHANGED <<bookings, slots>>

\* the find_one of the slot by profile, normalized date and time_slot
CreateLookupSlot(p) ==
    /\ pr[p].op = "create" /\ pr[p].pc = "c_find"
    /\ IF FindSlots(Normalize(pr[p].date), pr[p].ts) = {}
       THEN SetPr(p, [Idle EXCEPT !.op = "create", !.pc = "c_rej", !.st = "slot_not_found"])
       ELSE \E s \in FindSlots(Normalize(pr[p].date), pr[p].ts) :
              SetPr(p, [pr[p] EXCEPT !.pc = "c_dup", !.sid = s,
                                     !.cap = slots[s].max_capacity])
    /\ UNCHANGED <<bookings, slots>>

\* raise HTTPException: the handler returns without another store operation
CreateRejected(p) ==
    /\ pr[p].op = "create" /\ pr[p].pc = "c_rej"
    /\ Finish(p)
    /\ UNCHANGED <<bookings, slots>>

RejectInit ==
    /\ bookings = <<>>
    /\ slots \in {(<<1, 1>> :> NewSlot(1, TimeSlot, cap)) :
                     TimeSlot \in TimeSlots, cap \in 1..MaxCapacity}
    /\ pr = [p \in Procs |-> Idle]
    /\ nreq = 0
    /\ pre = NoPre
    /\ templates = <<>>
    /\ preview = NoPreview
    /\ overlapped = {}

RejectNext ==
    \E p \in SeqProcs :
        \/ CreateValidate(p) /\ Requests(p)
        \/ CreateLookupSlot(p) /\ Requests(p)
        \/ CreateRejected(p) /\ Requests(p)
        \/ CreateCheckDuplicate(p) /\ Requests(p)
        \/ CreateCheckCapacity(p) /\ Requests(p)
        \/ CreateInsert(p) /\ Requests(p)
        \/ CreateReadUser(p) /\ Requests(p)
        \/ CreateAutoConfirm(p) /\ Requests(p)
        \/ CreateIncrementRead(p) /\ Requests(p)
        \/ CreateIncrementWrite(p) /\ Requests(p)

RejectSpec == RejectInit /\ [][RejectNext]_vars

(***************************************************************************)
(* generate_slots_preview one iteration of its while True loop per step:    *)
(* the end test, the break test that moves the cursor to the break's end,   *)
(* or the slot appended and the cursor moved to the slot's end.  cnt counts *)
(* the iterations that skipped.                                             *)
(***************************************************************************)
\* the call with the request's fields
PreviewCall(p) ==
    /\ pr[p].pc = "idle"
    /\ SetPr(p, [Idle EXCEPT !.op = "preview", !.pc = "p_loop", !.config = preview,
                    !.current_hour = ParseHour(preview.start_time),
                    !.current_min = ParseMin(preview.start_time)])
    /\ UNCHANGED <<bookings, slots>>

PreviewIterate(p) ==
    /\ pr[p].op = "preview" /\ pr[p].pc = "p_loop"
    /\ LET c             == pr[p].config
           has_break     == c.break_start # NoTime /\ c.break_end # NoTime
           break_start_minutes ==
               IF has_break THEN ParseHour(c.break_start) * 60 + ParseMin(c.break_start) ELSE 0
           break_end_minutes ==
               IF has_break THEN ParseHour(c.break_end) * 60 + ParseMin(c.break_end) ELSE 0
           sum           == pr[p].current_min + c.slot_duration
           slot_end_hour == IF sum >= 60 THEN pr[p].current_hour + sum \div 60
                            ELSE pr[p].current_hour
           slot_end_min  == IF sum >= 60 THEN sum % 60 ELSE sum
       IN  IF ExceedsEnd(slot_end_hour, slot_end_min,
                         ParseHour(c.end_time), ParseMin(c.end_time))
           THEN Finish(p)
           ELSE IF has_break /\ InBreak(pr[p].current_hour * 60 + pr[p].current_min,
                                         slot_end_hour * 60 + slot_end_min,
                                         break_start_minutes, break_end_minutes)
           THEN SetPr(p, [pr[p] EXCEPT !.current_hour = break_end_minutes \div 60,
                                       !.current_min = break_end_minutes % 60,
                                       !.cnt = @ + 1])
           ELSE SetPr(p, [pr[p] EXCEPT
                     !.created_slots = Append(@,
                         [start_time |-> FormatTime(pr[p].current_hour, pr[p].current_min),
                          end_time |-> FormatTime(slot_end_hour, slot_end_min)]),
                     !.current_hour = slot_end_hour,
                     !.current_min = slot_end_min])
    /\ UNCHANGED <<bookings, slots>>

PreviewStepNext ==
    \E p \in SeqProcs :
        \/ PreviewCall(p) /\ OneCall(p)
        \/ PreviewIterate(p) /\ OneCall(p)

PreviewStepSpec == PreviewInit /\ [][PreviewStepNext]_vars

\* the handler, once called, runs on
FairPreviewStepSpec == PreviewStepSpec /\ WF_vars(PreviewStepNext)

(***************************************************************************)
(* The properties of the booking rules                                     *)
(***************************************************************************)
\* the bookings of slot s (its date and time_slot) whose status is in sts
BookingsOfSlot(s, sts) ==
    {b \in BookingIds :
        /\ OnDay(bookings[b].date, slots[s].date.day)
        /\ bookings[b].ts = slots[s].ts
        /\ bookings[b].status \in sts}

Quiescent == \A p \in Procs : pr[p].pc = "idle"

\* C1: in every reachable state, for every slot, the number of bookings with
\* status CONFIRMED for the slot's date and time_slot is at most the slot's
\* max_capacity.
C1_ConfirmedWithinCapacity ==
    \A s \in DOMAIN slots :
        Cardinality(BookingsOfSlot(s, {"CONFIRMED"})) <= slots[s].max_capacity

\* the create requests in flight that passed the capacity check against slot s
\* and committed their booking
CommittedCreates(s) ==
    {p \in Procs :
        /\ pr[p].op = "create"
        /\ pr[p].pc \in {"c_user", "c_conf", "c_incr", "c_incw"}
        /\ pr[p].sid = s}

\* C2: of the create requests running concurrently for one slot, at most as
\* many as the slot's remaining capacity pass the capacity check and commit a
\* booking.
C2_CommitsWithinRemaining ==
    \A s \in DOMAIN slots :
        Cardinality(CommittedCreates(s))
            <= slots[s].max_capacity
                 - Cardinality(BookingsOfSlot(s, {"CONFIRMED"})
                                 \ {pr[p].bid : p \in CommittedCreates(s)})

\* C3: no customer ever holds two bookings with status PENDING or CONFIRMED
\* for the same date and time_slot, whichever operations ran before.
C3_NoDoubleBooking ==
    \A a, b \in BookingIds :
        (/\ a # b
         /\ bookings[a].user = bookings[b].user
         /\ bookings[a].date.day = bookings[b].date.day
         /\ bookings[a].ts = bookings[b].ts
         /\ bookings[a].status \in ActiveStatuses)
        => bookings[b].status \notin ActiveStatuses

AllowedTransitions ==
    {<<"PENDING", "CONFIRMED">>, <<"PENDING", "REJECTED">>,
     <<"PENDING", "CANCELLED">>, <<"CONFIRMED", "CANCELLED">>,
     <<"CONFIRMED", "COMPLETED">>, <<"CONFIRMED", "NO_SHOW">>}

\* C4: every change of a booking's status is an edge of the table
\* PENDING -> {CONFIRMED, REJECTED, CANCELLED},
\* CONFIRMED -> {CANCELLED, COMPLETED, NO_SHOW}; a booking that is REJECTED,
\* CANCELLED, COMPLETED or NO_SHOW never changes its status again.
C4_TransitionTable ==
    [][\A b \in BookingIds :
          bookings'[b].status # bookings[b].status
          => <<bookings[b].status, bookings'[b].status>> \in AllowedTransitions]_vars

\* C5: when bulk_delete_slots comes to delete the slots of a date, and at that
\* moment a booking of the date is PENDING or CONFIRMED, the date is among
\* the protected dates and none of its slots is deleted; create requests may
\* run concurrently.
C5_ProtectedDeletion ==
    [][\A p \in Procs :
          (pr[p].op = "bulk_delete" /\ pr[p].pc = "bd_del" /\ pr'[p] # pr[p])
          => LET day == pr[p].dates[pr[p].cnt]
             IN HasActiveBooking(day)
                => (day \in pr[p].prot /\ SlotsOnDay(day) \subseteq DOMAIN slots')]_vars

\* C6: with no request in flight, each slot's booked_count is the number of
\* bookings on its date and time_slot that were confirmed and not cancelled
\* afterwards (status CONFIRMED, COMPLETED or NO_SHOW).
C6_CountMatchesBookings ==
    Quiescent
    => \A s \in DOMAIN slots :
          slots[s].booked_count
            = Cardinality(BookingsOfSlot(s, {"CONFIRMED", "COMPLETED", "NO_SHOW"}))

\* a create request that stopped after it set its booking CONFIRMED and before
\* it wrote the incremented booked_count
PartialCreate(p) ==
    /\ pr[p].op = "create" /\ pr[p].pc = "stopped"
    /\ pr[p].st \in {"c_incr", "c_incw"}
    /\ bookings[pr[p].bid].status = "CONFIRMED"

\* C7: a create request that stops between two of its store operations never
\* leaves its booking CONFIRMED without the slot's booked_count incremented
\* for it.
C7_CreateAllOrNothing == \A p \in Procs : ~PartialCreate(p)

\* the step that ends the request of unit p
Completes(p) == pr[p].pc # "idle" /\ pr'[p].pc = "idle"

\* the status booking b had when the running request arrived; a booking the
\* request inserted starts PENDING
PreStatus(b) ==
    IF b \in DOMAIN pre.bookings THEN pre.bookings[b].status ELSE "PENDING"

\* the slots, as the running request found them, of booking b's date and
\* time_slot as they are at the end of the request
PreSlotsOf(b) ==
    {s \in DOMAIN pre.slots :
        /\ pre.slots[s].date.day = bookings'[b].date.day
        /\ pre.slots[s].ts = bookings'[b].ts}

\* every slot the request found is still there, its booked_count changed by
\* delta(s)
CountsChangedBy(delta(_)) ==
    \A s \in DOMAIN pre.slots :
        /\ s \in DOMAIN slots'
        /\ slots'[s].booked_count = pre.slots[s].booked_count + delta(s)

\* C8: a request that takes a booking from PENDING to CONFIRMED (owner status
\* update, admin approve, auto-accept at creation) ends with the booked_count
\* of the booking's slot one higher than it found it; a request that takes a
\* booking from PENDING to REJECTED leaves every booked_count as it found it.
C8_ConfirmIncrements ==
    [][\A p \in SeqProcs :
          Completes(p)
          => \A b \in DOMAIN bookings' :
                /\ (PreStatus(b) = "PENDING" /\ bookings'[b].status = "CONFIRMED")
                   => \A s \in PreSlotsOf(b) :
                         /\ s \in DOMAIN slots'
                         /\ slots'[s].booked_count = pre.slots[s].booked_count + 1
                /\ (PreStatus(b) = "PENDING" /\ bookings'[b].status = "REJECTED")
                   => LET none(s) == 0 IN CountsChangedBy(none)]_vars

\* C9: a request that cancels a CONFIRMED booking (customer/owner cancel,
\* admin cancel) ends with the booked_count of the booking's slot one lower
\* than it found it, when that was above 0; a request that cancels a PENDING
\* booking leaves every booked_count as it found it.
C9_CancelDecrements ==
    [][\A p \in SeqProcs :
          Completes(p)
          => \A b \in DOMAIN pre.bookings :
                bookings'[b].status = "CANCELLED"
                => /\ PreStatus(b) = "CONFIRMED"
                      => \A s \in PreSlotsOf(b) :
                            /\ s \in DOMAIN slots'
                            /\ pre.slots[s].booked_count > 0
                               => slots'[s].booked_count = pre.slots[s].booked_count - 1
                   /\ PreStatus(b) = "PENDING"
                      => LET none(s) == 0 IN CountsChangedBy(none)]_vars

\* C10: a create request that inserted a booking ends, for a customer with
\* auto_accept, with the booking CONFIRMED and the target slot's booked_count
\* one higher than it found it (no other count changed); for a customer
\* without auto_accept, with the booking PENDING and no slot changed.
C10_AutoAcceptCreate ==
    [][\A p \in SeqProcs :
          (Completes(p) /\ pr[p].op = "create"
             /\ Len(bookings') = Len(pre.bookings) + 1)
          => LET b == Len(bookings')
                 target == {s \in DOMAIN pre.slots :
                              /\ pre.slots[s].date = Normalize(bookings'[b].date)
                              /\ pre.slots[s].ts = bookings'[b].ts}
                 one(s) == IF s \in target THEN 1 ELSE 0
             IN IF bookings'[b].user \in AutoAcceptUsers
                THEN /\ bookings'[b].status = "CONFIRMED"
                     /\ target # {}
                     /\ CountsChangedBy(one)
                ELSE /\ bookings'[b].status = "PENDING"
                     /\ slots' = pre.slots]_vars

\* an auto-accepted booking is CONFIRMED and counted in its slot, and a
\* booking of a customer without auto_accept is PENDING, no request in flight
C10_AutoAcceptWitness ==
    /\ Quiescent
    /\ \E b \in BookingIds, s \in DOMAIN slots :
          /\ bookings[b].user \in AutoAcceptUsers
          /\ b \in BookingsOfSlot(s, {"CONFIRMED"})
          /\ slots[s].booked_count = 1
    /\ \E b \in BookingIds :
          bookings[b].user \notin AutoAcceptUsers /\ bookings[b].status = "PENDING"

\* C11: a create request for an existing slot, by a customer with no active
\* booking on it, is rejected as fully booked exactly when the number of
\* CONFIRMED bookings of the slot's date and time_slot is at least the slot's
\* max_capacity; every CONFIRMED booking of the slot counts.
C11_SlotFullRule ==
    [][\A p \in SeqProcs :
          (/\ pr[p].op = "create" /\ pr[p].pc = "c_cap" /\ pr'[p] # pr[p]
           /\ pr[p].sid \in DOMAIN slots
           /\ \A b \in BookingsOfSlot(pr[p].sid, ActiveStatuses) :
                 bookings[b].user # pr[p].user)
          => ((pr'[p].pc = "idle")
                <=> (Cardinality(BookingsOfSlot(pr[p].sid, {"CONFIRMED"}))
                       >= slots[pr[p].sid].max_capacity))]_vars

\* the status a request for a status change, just taken up by unit p, asks for
RequestedStatus(p) == IF pr'[p].op = "cancel" THEN "CANCELLED" ELSE pr'[p].st

\* C12: an owner-side request for a status change that the table does not
\* allow from the booking's current status fails at once (400), leaving
\* bookings and slots as they are: a status request is taken up only when
\* its transition is allowed.
C12_DisallowedRejected ==
    [][\A p \in SeqProcs :
          (/\ pr[p].pc = "idle" /\ pr'[p].pc # "idle"
           /\ pr'[p].op \in {"owner_status", "cancel", "admin_status"})
          => <<bookings[pr'[p].bid].status, RequestedStatus(p)>>
                \in AllowedTransitions]_vars

\* C13: under every interleaving of increment_booked_count and
\* decrement_booked_count calls, booked_count is at least 0 in every state,
\* and a decrement that finds booked_count at 0 writes nothing.
C13_CountNeverNegative ==
    /\ [](\A s \in DOMAIN slots : slots[s].booked_count >= 0)
    /\ [][\A p \in Procs :
             (/\ pr[p].op = "decrement" /\ pr[p].pc = "n_decr" /\ pr'[p] # pr[p]
              /\ pr[p].sid \in DOMAIN slots
              /\ slots[pr[p].sid].booked_count = 0)
             => (slots' = slots /\ pr'[p].pc = "idle")]_vars

\* a decrement that read a positive count is about to write, and the slot's
\* count has meanwhile gone to 0 through another call
C13_StaleDecrementWitness ==
    \E p \in Procs :
        /\ pr[p].op = "decrement" /\ pr[p].pc = "n_decw"
        /\ pr[p].sid \in DOMAIN slots
        /\ slots[pr[p].sid].booked_count = 0

\* C14: with no request in flight, every stored slot has
\* is_available = (booked_count < max_capacity), also after increments,
\* decrements and capacity updates that ran concurrently on the slot.
C14_AvailableFlagConsistent ==
    Quiescent
    => \A s \in DOMAIN slots :
          slots[s].is_available = (slots[s].booked_count < slots[s].max_capacity)

\* C15: every stored booking's booking_date has a zero time-of-day component,
\* whatever time component the create or reschedule request carried.
C15_DatesNormalized ==
    \A b \in BookingIds : bookings[b].date.tod = 0

\* C16: no two stored bookings have the same booking_ref, also when several
\* create_booking calls generate and check their references concurrently.
C16_UniqueBookingRef ==
    \A a, b \in BookingIds : a # b => bookings[a].ref # bookings[b].ref

\* a call that passed the existence check holds a reference that another
\* call has stored in the meantime
C16_CollisionWitness ==
    \E p \in Procs :
        /\ pr[p].op = "create_booking" /\ pr[p].pc = "g_ins"
        /\ \E b \in BookingIds : bookings[b].ref = pr[p].ref

DefaultsOf(tpl, owner) ==
    {t \in DOMAIN tpl : tpl[t].owner = owner /\ tpl[t].is_default}

\* C17: with template requests served one at a time, each owner has at most
\* one template with is_default = true, and a create or update carrying
\* is_default = true ends with its template as the owner's only default.
C17_SingleDefault ==
    /\ [](\A u \in Users : Cardinality(DefaultsOf(templates, u)) <= 1)
    /\ [][\A p \in SeqProcs :
            (pr[p].is_default = "true" /\ pr'[p].pc = "idle" /\ pr[p].pc # "idle")
            => /\ pr[p].op = "create_template"
                  => \E t \in DOMAIN templates' \ DOMAIN templates :
                        DefaultsOf(templates', pr[p].user) = {t}
               /\ pr[p].op = "update_template"
                  => DefaultsOf(templates', pr[p].user) = {pr[p].tid}]_vars

\* a create with is_default = true is about to insert; the owner's earlier
\* default has been unset and the other owner's default is still set
C17_DefaultReplacedWitness ==
    \E p \in SeqProcs :
        /\ pr[p].op = "create_template" /\ pr[p].pc = "t_ins"
        /\ pr[p].is_default = "true"
        /\ \E t \in DOMAIN templates : templates[t].owner = pr[p].user
        /\ DefaultsOf(templates, pr[p].user) = {}
        /\ \E u \in Users : u # pr[p].user /\ DefaultsOf(templates, u) # {}

\* minutes since midnight of a time string, and the string of a minute count
MinutesOf(s) == (s[1] * 10 + s[2]) * 60 + s[3] * 10 + s[4]

LabelOf(m) == <<(m \div 60) \div 10, (m \div 60) % 10, (m % 60) \div 10, (m % 60) % 10>>

PreviewHasBreak == preview.break_start # NoTime /\ preview.break_end # NoTime

RECURSIVE Emitted(_, _, _, _, _, _)
\* the documented algorithm from the cursor: a candidate [cursor, cursor+duration)
\* that intersects the break emits nothing and moves the cursor to break_end;
\* a candidate whose end is <= end_time is emitted; otherwise the sequence ends
Emitted(cursor, end, duration, has_break, break_start, break_end) ==
    IF has_break /\ cursor < break_end /\ break_start < cursor + duration
    THEN Emitted(break_end, end, duration, has_break, break_start, break_end)
    ELSE IF cursor + duration <= end
    THEN <<[start_time |-> LabelOf(cursor), end_time |-> LabelOf(cursor + duration)]>>
         \o Emitted(cursor + duration, end, duration, has_break, break_start, break_end)
    ELSE <<>>

NineOClock == <<0, 9, 0, 0>>

TenOClock == <<1, 0, 0, 0>>

\* C18: generate_slots_preview returns exactly the sequence of the documented
\* algorithm; (09:00, 10:00, 30) gives [09:00-09:30, 09:30-10:00] and the same
\* with the break 09:15-09:45 gives the empty list.
C18_PreviewMatchesAlgorithm ==
    preview.done =>
        /\ preview.slots =
              Emitted(MinutesOf(preview.start_time), MinutesOf(preview.end_time),
                      preview.slot_duration, PreviewHasBreak,
                      IF PreviewHasBreak THEN MinutesOf(preview.break_start) ELSE 0,
                      IF PreviewHasBreak THEN MinutesOf(preview.break_end) ELSE 0)
        /\ (/\ preview.start_time = NineOClock /\ preview.end_time = TenOClock
            /\ preview.slot_duration = 30)
           => /\ ~PreviewHasBreak
                 => preview.slots =
                      << [start_time |-> NineOClock, end_time |-> <<0, 9, 3, 0>>],
                         [start_time |-> <<0, 9, 3, 0>>, end_time |-> TenOClock] >>
              /\ (preview.break_start = <<0, 9, 1, 5>> /\ preview.break_end = <<0, 9, 4, 5>>)
                 => preview.slots = <<>>

\* the preview of (09:00, 10:00, 30) with the break 09:15-09:45 has been returned
C18_BreakExampleWitness ==
    /\ preview.done
    /\ preview.start_time = NineOClock /\ preview.end_time = TenOClock
    /\ preview.slot_duration = 30
    /\ preview.break_start = <<0, 9, 1, 5>> /\ preview.break_end = <<0, 9, 4, 5>>
    /\ preview.slots = <<>>

\* C19: with a break given, every emitted slot has end <= break_start or
\* start >= break_end.
C19_NoSlotInBreak ==
    (preview.done /\ PreviewHasBreak) =>
        \A i \in DOMAIN preview.slots :
            \/ MinutesOf(preview.slots[i].end_time) <= MinutesOf(preview.break_start)
            \/ MinutesOf(preview.slots[i].start_time) >= MinutesOf(preview.break_end)

\* a preview with slots before the break and slots after it, the first
\* candidate after the last slot before the break having been dropped
C19_AroundBreakWitness ==
    /\ preview.done /\ PreviewHasBreak
    /\ MinutesOf(preview.break_start) < MinutesOf(preview.break_end)
    /\ \E i \in DOMAIN preview.slots :
          /\ i + 1 \in DOMAIN preview.slots
          /\ MinutesOf(preview.slots[i].end_time) < MinutesOf(preview.break_start)
          /\ MinutesOf(preview.slots[i + 1].start_time) = MinutesOf(preview.break_end)

\* C20: a user reschedule that succeeds changes the booking's booking_date and
\* time_slot and nothing else: the booking stays PENDING, every other booking
\* and every slot is as the request found it.  A user reschedule is taken
\* past its status test only for a PENDING booking, and one that fails leaves
\* bookings and slots as it found them.
C20_RescheduleFrame ==
    [][\A p \in SeqProcs :
          /\ (pr[p].pc = "idle" /\ pr'[p].op = "user_reschedule")
             => bookings[pr'[p].bid].status = "PENDING"
          /\ (Completes(p) /\ pr[p].op = "user_reschedule")
             => /\ slots' = pre.slots
                /\ DOMAIN bookings' = DOMAIN pre.bookings
                /\ \A b \in DOMAIN bookings' :
                      /\ bookings'[b].status = pre.bookings[b].status
                      /\ bookings'[b].user = pre.bookings[b].user
                      /\ (b # pr[p].bid \/ pr[p].pc # "r_set")
                         => bookings'[b] = pre.bookings[b]
                /\ pr[p].pc = "r_set"
                   => /\ bookings'[pr[p].bid].status = "PENDING"
                      /\ bookings'[pr[p].bid].date = Normalize(pr[p].date)
                      /\ bookings'[pr[p].bid].ts = pr[p].ts]_vars

\* a user reschedule has passed every test and is about to move a booking to
\* a slot of another day, while the slot it leaves has a booked_count above 0
C20_RescheduleWitness ==
    \E p \in SeqProcs :
        /\ pr[p].op = "user_reschedule" /\ pr[p].pc = "r_set"
        /\ bookings[pr[p].bid].date.day # pr[p].date.day
        /\ \E s \in DOMAIN slots :
              /\ slots[s].date.day = bookings[pr[p].bid].date.day
              /\ slots[s].ts = bookings[pr[p].bid].ts
              /\ slots[s].booked_count > 0

\* C21: every stored availability slot has max_capacity >= 1.
C21_CapacityAtLeastOne ==
    \A s \in DOMAIN slots : slots[s].max_capacity >= 1

\* C22: a create_slots_for_date call that returns has persisted exactly one
\* slot per definition that generate_slots_preview emits for the config's
\* start_time, end_time and slot_duration without a break, in the same order,
\* with time_slot "start-end", booked_count 0 and max_capacity
\* config.max_capacity_per_slot, and every slot it found is unchanged.
C22_CreateSlotsMatchesPreview ==
    [][\A p \in SeqProcs :
          (Completes(p) /\ pr[p].op = "create_slots")
          => LET c       == pr[p].config
                 emitted == generate_slots_preview(c.start_time, c.end_time,
                                                   c.slot_duration, NoTime, NoTime)
                 created == pr[p].created_slots
             IN  /\ Len(created) = Len(emitted)
                 /\ \A i, j \in DOMAIN created : i # j => created[i] # created[j]
                 /\ \A i \in DOMAIN created :
                       /\ created[i] \notin DOMAIN pre.slots
                       /\ created[i] \in DOMAIN slots'
                       /\ slots'[created[i]].ts =
                             <<emitted[i].start_time, emitted[i].end_time>>
                       /\ slots'[created[i]].date = pr[p].date
                       /\ slots'[created[i]].booked_count = 0
                       /\ slots'[created[i]].max_capacity = c.max_capacity_per_slot
                 /\ DOMAIN slots' = DOMAIN pre.slots \cup {created[i] : i \in DOMAIN created}
                 /\ \A s \in DOMAIN pre.slots : slots'[s] = pre.slots[s]]_vars

\* the loop has inserted two or more slots next to a booked slot of the same
\* day, the last of them ending exactly at the config's end_time
C22_SlotsCreatedWitness ==
    \E p \in SeqProcs :
        /\ pr[p].op = "create_slots" /\ pr[p].pc = "g_loop"
        /\ Len(pr[p].created_slots) >= 2
        /\ pr[p].config.slot_duration > 0
        /\ FormatTime(pr[p].current_hour, pr[p].current_min) = pr[p].config.end_time
        /\ \E s \in DOMAIN pre.slots :
              pre.slots[s].date = pr[p].date /\ pre.slots[s].booked_count > 0

\* the loop is cut off at MaxInserts only where its cursor does not advance
OnlyStalledLoopsCutOff ==
    \A p \in SeqProcs :
        (pr[p].op = "create_slots" /\ Len(pr[p].created_slots) = MaxInserts)
        => pr[p].config.slot_duration <= 0

\* C23: every create-slots request that is accepted is eventually answered:
\* create_slots_for_date leaves its loop after finitely many inserts.
C23_CreateSlotsTerminates ==
    \A p \in SeqProcs : (pr[p].op = "create_slots") ~> (pr[p].pc = "idle")

\* the slots of a day in a slot collection
DaySlots(sl, day) == {i \in DOMAIN sl : OnDay(sl[i].date, day)}

C28_BulkDeleteAccounts ==
    \A p \in SeqProcs :
        (pr[p].op = "bulk_delete" /\ pr[p].pc = "bd_ret")
        => pr[p].success_count + Len(pr[p].failed_dates) + Cardinality(pr[p].prot)
             = Len(pr[p].dates)

\* C25: a default-set request (create or update with is_default = true) that
\* runs from its first store operation to its last beside no other request
\* ends with its target as the owner's one default, whatever number of
\* defaults the interleaved requests before it left.
C25_DefaultSelfHeals ==
    [][\A p \in Procs :
          (/\ pr[p].is_default = "true" /\ pr[p].pc # "idle" /\ pr'[p].pc = "idle"
           /\ p \notin overlapped
           /\ \A q \in Procs \ {p} : pr[q].pc = "idle")
          => /\ pr[p].op = "create_template"
                => \E t \in DOMAIN templates' \ DOMAIN templates :
                      DefaultsOf(templates', pr[p].user) = {t}
             /\ pr[p].op = "update_template"
                => DefaultsOf(templates', pr[p].user) = {pr[p].tid}]_vars

\* interleaved default-set requests have left an owner with two defaults, and
\* a default-set request of that owner running alone is at its last step
C25_TwoDefaultsWitness ==
    \E p \in Procs :
        /\ pr[p].is_default = "true" /\ pr[p].pc \in {"t_unset", "u_unset"}
        /\ p \notin overlapped
        /\ \A q \in Procs \ {p} : pr[q].pc = "idle"
        /\ Cardinality(DefaultsOf(templates, pr[p].user)) = 2

\* C26: no increment of booked_count is lost: when the confirming requests
\* have all completed, the slot's booked_count is not below the number of
\* bookings of the slot they confirmed.
C26_NoLostIncrement ==
    Quiescent
    => \A s \in DOMAIN slots :
          slots[s].booked_count >= Cardinality(BookingsOfSlot(s, {"CONFIRMED"}))

\* C27: in every state with no request in flight, every booking with status
\* PENDING or CONFIRMED and a non-empty time_slot has a stored slot with the
\* same date and time_slot.
C27_ActiveBookingHasSlot ==
    Quiescent
    => \A b \in BookingIds :
          (bookings[b].status \in ActiveStatuses /\ bookings[b].ts # NoTS)
          => \E s \in DOMAIN slots :
                /\ OnDay(bookings[b].date, slots[s].date.day)
                /\ slots[s].ts = bookings[b].ts

\* the running create_booking request answers with an HTTPException
Rejects(p) ==
    /\ pr[p].op = "create"
    /\ pr[p].pc \in {"c_rej", "c_dup", "c_cap"}
    /\ pr'[p].pc = "idle"

\* C29: a create_booking request that is rejected (profile or service not
\* found, past date, expired slot, slot not found, duplicate booking, slot
\* full) leaves the store as it found it: no booking inserted, no slot changed.
C29_RejectedCreateLeavesStore ==
    [][\A p \in SeqProcs :
          Rejects(p) => bookings' = pre.bookings /\ slots' = pre.slots]_vars

\* a request for a full slot, about to be rejected, in a store that holds the
\* confirmed booking filling the slot
C29_FullSlotRejectedWitness ==
    \E p \in SeqProcs :
        /\ pr[p].op = "create" /\ pr[p].pc = "c_cap"
        /\ count_confirmed_bookings_for_slot(Normalize(pr[p].date), pr[p].ts) >= pr[p].cap
        /\ bookings # <<>>
        /\ bookings = pre.bookings /\ slots = pre.slots

\* the cursor of a running preview, in minutes
CursorMinutes(r) == r.current_hour * 60 + r.current_min

\* C30: generate_slots_preview terminates for every input its request model
\* accepts: the cursor strictly increases on every loop iteration, both when
\* a slot is emitted and when a break-overlapping slot is skipped, and every
\* call returns.
C30_PreviewTerminates ==
    /\ [][\A p \in SeqProcs :
             (pr[p].op = "preview" /\ pr'[p].op = "preview")
             => CursorMinutes(pr'[p]) > CursorMinutes(pr[p])]_vars
    /\ \A p \in SeqProcs : (pr[p].op = "preview") ~> (pr[p].pc = "idle")

\* a call whose break ends no later than it starts, after an iteration that
\* skipped and an iteration that emitted
C30_SkippedAndEmittedWitness ==
    \E p \in SeqProcs :
        /\ pr[p].op = "preview"
        /\ pr[p].config.break_start # NoTime /\ pr[p].config.break_end # NoTime
        /\ ParseHour(pr[p].config.break_start) * 60 + ParseMin(pr[p].config.break_start)
             >= ParseHour(pr[p].config.break_end) * 60 + ParseMin(pr[p].config.break_end)
        /\ pr[p].cnt >= 1
        /\ pr[p].created_slots # <<>>

====
